---- MODULE Spec2Model ----
(***************************************************************************)
(* Model of the mint.club v2 SDK contract layer:                           *)
(*   - the bonding-curve argument builder  (generateCreateArgs, 2 variants)*)
(*   - the generic contract client         (getInstance cache, write)      *)
(*   - the token-creation orchestrator     (createToken, 2 variants)       *)
(*                                                                         *)
(* Numbers.  A JavaScript `number` argument is held as a count of tenths   *)
(* (5 is 0.5, 20 is 2), always in plain decimal notation, so that          *)
(* handleScientificNotation returns the string unchanged.  A bigint is     *)
(* held exactly as a record [m, e] standing for m * 10^e.                  *)
(***************************************************************************)
EXTENDS Integers, Sequences, FiniteSets, TLC

\* ------------------------------------------------------------------ bounds
MaxSteps == 3

\* inputs of the builder (tenths)
Boundaries == {5, 10, 20}
Prices == {0, 4, 10}
CreatorAllocations == {0, 4, 15}
ReserveDecimals == {0, 6}
TokenTypes == {"ERC20", "ERC1155"}
Variants == {"BondContract", "BondContractLogic"}

Erc20Decimals == 18
Erc1155Decimals == 0

None == "undefined"

\* ----------------------------------------------------------------- bigint
Big(m, e) == [m |-> m, e |-> e]

RECURSIVE Pow10(_)
Pow10(n) == IF n = 0 THEN 1 ELSE 10 * Pow10(n - 1)

RECURSIVE Digits(_)
Digits(n) == IF n < 10 THEN 1 ELSE 1 + Digits(n \div 10)

RECURSIVE Norm(_)
Norm(a) ==
  IF a.m = 0 THEN Big(0, 0)
  ELSE IF a.m % 10 = 0 THEN Norm(Big(a.m \div 10, a.e + 1))
  ELSE a

\* a === b on two bigints: numeric equality
BigEq(a, b) == Norm(a) = Norm(b)

\* a <= b on two non-negative bigints
BigLeq(a, b) ==
  LET x == Norm(a)
      y == Norm(b)
      mx == Digits(x.m) + x.e
      my == Digits(y.m) + y.e
  IN  IF x.m = 0 THEN TRUE
      ELSE IF y.m = 0 THEN FALSE
      ELSE IF mx # my THEN mx < my
      ELSE IF x.e >= y.e THEN x.m * Pow10(x.e - y.e) <= y.m
      ELSE x.m <= y.m * Pow10(y.e - x.e)

\* viem parseUnits on the decimal string of `tenths`: with decimals >= 1 the
\* single fraction digit is kept exactly; with decimals = 0 the fraction is
\* rounded half up into the integer part.
parseUnits(tenths, decimals) ==
  IF decimals = 0 THEN Big((tenths + 5) \div 10, 0)
  ELSE Big(tenths, decimals - 1)

\* plain-notation numbers hold no 'e': the string is returned unchanged
handleScientificNotation(num) == num

wei(num, decimals) == parseUnits(handleScientificNotation(num), decimals)

\* ---------------------------------------------------------------- builder
SeqsUpTo(S, n) == UNION {[1..k -> S] : k \in 0..n}

RemoveAt(s, k) == [j \in 1..(Len(s) - 1) |-> IF j < k THEN s[j] ELSE s[j + 1]]

\* tokenType === 'ERC20' ? 18 : 0
TokenDecimals(tokenType) == IF tokenType = "ERC20" THEN Erc20Decimals ELSE Erc1155Decimals

\* the checkpoints are handed on as a fresh copy
restructureStepData(stepData) == stepData

ClonedStepData(variant, stepData) ==
  IF variant = "BondContract" THEN restructureStepData(stepData) ELSE stepData

ScaleRanges(variant, p) ==
  LET sd == ClonedStepData(variant, p.stepData)
  IN  [k \in 1..Len(sd) |-> wei(sd[k].x, TokenDecimals(p.tokenType))]

ScalePrices(variant, p) ==
  LET sd == ClonedStepData(variant, p.stepData)
  IN  [k \in 1..Len(sd) |-> wei(sd[k].y, p.decimals)]

\* creatorAllocation && creatorAllocation > 0 (BondContract only)
HasCreatorAllocation(variant, p) ==
  variant = "BondContract" /\ p.creatorAllocation # 0 /\ p.creatorAllocation > 0

UnshiftRanges(variant, p, ranges) ==
  IF HasCreatorAllocation(variant, p)
  THEN <<wei(p.creatorAllocation, TokenDecimals(p.tokenType))>> \o ranges
  ELSE ranges

UnshiftPrices(variant, p, prices) ==
  IF HasCreatorAllocation(variant, p) THEN <<Big(0, 0)>> \o prices ELSE prices

\* stepPrices[i] === stepPrices[i + 1] with a 0-based i; past the end the
\* right side is undefined and never equal to a bigint
SamePriceAt(prices, i) ==
  i + 2 <= Len(prices) /\ BigEq(prices[i + 1], prices[i + 2])

RECURSIVE MergeLoopNoRetest(_, _, _)
MergeLoopNoRetest(ranges, prices, i) ==
  IF ~(i < Len(prices)) THEN [stepRanges |-> ranges, stepPrices |-> prices]
  ELSE IF SamePriceAt(prices, i)
       THEN MergeLoopNoRetest(RemoveAt(ranges, i + 1), RemoveAt(prices, i + 1), i + 1)
       ELSE MergeLoopNoRetest(ranges, prices, i + 1)

\* for (let i = 0; i < stepPrices.length; i++) { if same price: splice both
\* at i, i-- }
RECURSIVE MergeLoop(_, _, _)
MergeLoop(ranges, prices, i) ==
  IF ~(i < Len(prices)) THEN [stepRanges |-> ranges, stepPrices |-> prices]
  ELSE IF SamePriceAt(prices, i)
       THEN MergeLoop(RemoveAt(ranges, i + 1), RemoveAt(prices, i + 1), (i - 1) + 1)
       ELSE MergeLoop(ranges, prices, i + 1)

\* !stepData: stepData is an array, and an array (even []) is truthy
NotStepData(stepData) == FALSE

IsInvalidStepDataInverted(stepData, ranges, prices) ==
  \/ NotStepData(stepData)
  \/ Len(ranges) = 0
  \/ Len(prices) = 0
  \/ Len(ranges) = Len(prices)

\* !stepData || stepRanges.length === 0 || stepPrices.length === 0 ||
\* stepRanges.length !== stepPrices.length
IsInvalidStepData(stepData, ranges, prices) ==
  \/ NotStepData(stepData)
  \/ Len(ranges) = 0
  \/ Len(prices) = 0
  \/ Len(ranges) # Len(prices)

\* the whole of generateCreateArgs, as createToken calls it
generateCreateArgs(variant, p) ==
  LET ranges == UnshiftRanges(variant, p, ScaleRanges(variant, p))
      prices == UnshiftPrices(variant, p, ScalePrices(variant, p))
      merged == MergeLoop(ranges, prices, 0)
  IN  IF IsInvalidStepData(p.stepData, merged.stepRanges, merged.stepPrices)
      THEN [threw |-> TRUE, stepRanges |-> <<>>, stepPrices |-> <<>>]
      ELSE [threw |-> FALSE, stepRanges |-> merged.stepRanges,
            stepPrices |-> merged.stepPrices]

\* ------------------------------------------------------------------ state
VARIABLES
  bpc,          \* position of one generateCreateArgs call
  bparams,      \* its arguments: variant, tokenType, decimals, creatorAllocation, stepData
  stepRanges,   \* local array stepRanges
  stepPrices,   \* local array stepPrices
  preMerge,     \* the two arrays as they stood when the merge loop started
  instances,    \* GenericContractLogic.instances: chain id -> object (0: absent)
  objects,      \* every object a constructor has completed, in creation order
  returned,     \* the values getInstance has returned, in call order
  walletClient, \* this.walletClient of the client under test
  ethereum,     \* window.ethereum is present
  calls,        \* the write / createToken calls on that client
  activeChain,  \* the chain the signer's wallet is currently on
  lastAttach,   \* the last signer-attachment call made on that client
  provider,     \* the withProvider call on that client
  netCalls      \* the BondContract.network calls made, with their outcomes

vars == <<bpc, bparams, stepRanges, stepPrices, preMerge, instances, objects,
          returned, walletClient, ethereum, calls, activeChain, lastAttach, provider,
          netCalls>>

builderVars == <<bpc, bparams, stepRanges, stepPrices, preMerge>>
cacheVars == <<instances, objects, returned>>
writeVars == <<walletClient, ethereum, calls, activeChain, lastAttach, provider>>
netVars == <<netCalls>>

\* ----------------------------------------------- builder, statement by statement
BuilderInputs ==
  [variant : {"BondContract"}, tokenType : TokenTypes, decimals : ReserveDecimals,
   creatorAllocation : CreatorAllocations,
   stepData : SeqsUpTo([x : Boundaries, y : Prices], MaxSteps)]
  \cup
  [variant : {"BondContractLogic"}, tokenType : TokenTypes, decimals : ReserveDecimals,
   creatorAllocation : {0},
   stepData : SeqsUpTo([x : Boundaries, y : Prices], MaxSteps)]

NoArrays == [stepRanges |-> <<>>, stepPrices |-> <<>>]

BuilderIdle ==
  /\ bpc = "idle"
  /\ bparams = [variant |-> "BondContractLogic", tokenType |-> "ERC20", decimals |-> 0,
                creatorAllocation |-> 0, stepData |-> <<>>]
  /\ stepRanges = <<>>
  /\ stepPrices = <<>>
  /\ preMerge = NoArrays

BuilderInit ==
  /\ bpc = "called"
  /\ bparams \in BuilderInputs
  /\ stepRanges = <<>>
  /\ stepPrices = <<>>
  /\ preMerge = NoArrays

\* stepData.forEach(push, push)  /  clonedStepData.map(...) twice
BuilderScale ==
  /\ bpc = "called"
  /\ stepRanges' = ScaleRanges(bparams.variant, bparams)
  /\ stepPrices' = ScalePrices(bparams.variant, bparams)
  /\ bpc' = IF bparams.variant = "BondContract" THEN "scaled" ELSE "premerge"
  /\ UNCHANGED <<bparams, preMerge, cacheVars, writeVars, netVars>>

\* if (creatorAllocation && creatorAllocation > 0) { unshift, unshift }
BuilderUnshift ==
  /\ bpc = "scaled"
  /\ stepRanges' = UnshiftRanges(bparams.variant, bparams, stepRanges)
  /\ stepPrices' = UnshiftPrices(bparams.variant, bparams, stepPrices)
  /\ bpc' = "premerge"
  /\ UNCHANGED <<bparams, preMerge, cacheVars, writeVars, netVars>>

\* merge same price points
BuilderMerge ==
  /\ bpc = "premerge"
  /\ preMerge' = [stepRanges |-> stepRanges, stepPrices |-> stepPrices]
  /\ stepRanges' = MergeLoop(stepRanges, stepPrices, 0).stepRanges
  /\ stepPrices' = MergeLoop(stepRanges, stepPrices, 0).stepPrices
  /\ bpc' = "merged"
  /\ UNCHANGED <<bparams, cacheVars, writeVars, netVars>>

\* throw new Error('Invalid step data. ...')
BuilderThrow ==
  /\ bpc = "merged"
  /\ IsInvalidStepData(bparams.stepData, stepRanges, stepPrices)
  /\ bpc' = "thrown"
  /\ UNCHANGED <<bparams, stepRanges, stepPrices, preMerge, cacheVars, writeVars, netVars>>

\* return { tokenParams, bondParams }: bondParams carries the two arrays
BuilderReturn ==
  /\ bpc = "merged"
  /\ ~IsInvalidStepData(bparams.stepData, stepRanges, stepPrices)
  /\ bpc' = "returned"
  /\ UNCHANGED <<bparams, stepRanges, stepPrices, preMerge, cacheVars, writeVars, netVars>>

BuilderNext ==
  \/ BuilderScale
  \/ BuilderUnshift
  \/ BuilderMerge
  \/ BuilderThrow
  \/ BuilderReturn

\* ------------------------------------------------- chain registry, network()
MaxNetworkCalls == 2

\* a string is the sequence of its characters
UpperCase == <<"A", "B", "C", "D", "E", "F", "G", "H", "I", "J", "K", "L", "M",
               "N", "O", "P", "Q", "R", "S", "T", "U", "V", "W", "X", "Y", "Z">>
LowerCase == <<"a", "b", "c", "d", "e", "f", "g", "h", "i", "j", "k", "l", "m",
               "n", "o", "p", "q", "r", "s", "t", "u", "v", "w", "x", "y", "z">>

toLowerCase(str) ==
  [i \in 1..Len(str) |->
     IF \E k \in 1..Len(UpperCase) : UpperCase[k] = str[i]
     THEN LowerCase[CHOOSE k \in 1..Len(UpperCase) : UpperCase[k] = str[i]]
     ELSE str[i]]

\* the registry, in declaration order: viem's chain id and the display name
CHAINS ==
  << [id |-> 1,        name |-> <<"E", "t", "h", "e", "r", "e", "u", "m">>],
     [id |-> 8453,     name |-> <<"B", "a", "s", "e">>],
     [id |-> 10,       name |-> <<"O", "p", "t", "i", "m", "i", "s", "m">>],
     [id |-> 42161,    name |-> <<"A", "r", "b", "i", "t", "r", "u", "m">>],
     [id |-> 43114,    name |-> <<"A", "v", "a", "l", "a", "n", "c", "h", "e">>],
     [id |-> 137,      name |-> <<"P", "o", "l", "y", "g", "o", "n">>],
     [id |-> 56,       name |-> <<"B", "N", "B", "C", "h", "a", "i", "n">>],
     [id |-> 11155111, name |-> <<"S", "e", "p", "o", "l", "i", "a">>] >>

\* a value that is a number or undefined
Undefined == [defined |-> FALSE, num |-> 0]
Number(n) == [defined |-> TRUE, num |-> n]

\* Array.prototype.find: the first entry that satisfies the test
chainStringToId(name) ==
  IF Len(name) = 0 THEN Undefined
  ELSE LET hits == {i \in 1..Len(CHAINS) : toLowerCase(CHAINS[i].name) = toLowerCase(name)}
       IN  IF hits = {} THEN Undefined
           ELSE Number(CHAINS[CHOOSE i \in hits : \A j \in hits : i <= j].id)

\* the argument of network(): a chain name or a chain id
NameId(str) == [type |-> "string", str |-> str, num |-> 0]
NumberId(n) == [type |-> "number", str |-> <<>>, num |-> n]

NetworkIds ==
  {NumberId(0), NumberId(1), NumberId(8453), NumberId(5), NumberId(11155111),
   NameId(<<>>), NameId(<<"b", "a", "s", "e">>), NameId(<<"B", "A", "s", "e">>),
   NameId(<<"s", "e", "p", "o", "l", "i", "a">>),
   NameId(<<"b", "n", "b", "c", "h", "a", "i", "n">>),
   NameId(<<"u", "n", "k", "n", "o", "w", "n", "n", "e", "t">>),
   NameId(<<"b", "a", "s", "e", " ">>)}

\* !chainId
Falsy(chainId) == ~chainId.defined \/ chainId.num = 0

NetIdle == netCalls = <<>>
NetInit == NetIdle

\* network(id): throws `Chain ${id} not supported`, or returns this
network(id) ==
  /\ Len(netCalls) < MaxNetworkCalls
  /\ LET chainId == IF id.type = "string" THEN chainStringToId(id.str) ELSE Number(id.num)
     IN  netCalls' = Append(netCalls,
           IF Falsy(chainId)
           THEN [id |-> id, threw |-> TRUE, error |-> "Chain not supported"]
           ELSE [id |-> id, threw |-> FALSE, error |-> None])
  /\ UNCHANGED <<builderVars, cacheVars, writeVars>>

NetNext == \E id \in NetworkIds : network(id)

\* ------------------------------------------------------- getInstance cache
MaxGetInstanceCalls == 3

ChainIds == {1, 8453, 5}
\* CHAIN_MAP: the registry's chain ids; 5 is in no entry
CHAIN_MAP == {CHAINS[i].id : i \in 1..Len(CHAINS)}
\* Object.values(chains): viem knows all three
ViemChains == {1, 8453, 5}
ContractTypes == {"BOND", "ERC20"}
Abis == {"BOND_ABI", "ERC20_ABI"}
Classes == {"GenericContractLogic", "BondContract"}

CacheIdle ==
  /\ instances = [c \in ChainIds |-> 0]
  /\ objects = <<>>
  /\ returned = <<>>

CacheInit == CacheIdle

\* the constructor's two checks: CHAIN_MAP[chainId], then the viem chain
ConstructorThrows(chainId) == chainId \notin CHAIN_MAP \/ chainId \notin ViemChains

CacheMissAlways(chainId) == TRUE

\* !this.instances[chainId]
CacheMiss(chainId) == instances[chainId] = 0

\* static getInstance(chainId, type, abi), called on class cls
getInstance(cls, chainId, type, abi) ==
  /\ Len(returned) < MaxGetInstanceCalls
  /\ IF CacheMiss(chainId)
     THEN IF ConstructorThrows(chainId)
          THEN /\ UNCHANGED <<instances, objects>>
               /\ returned' = Append(returned,
                    [chainId |-> chainId, type |-> type, abi |-> abi, value |-> 0])
          ELSE /\ objects' = Append(objects,
                    [cls |-> cls, chainId |-> chainId, contractType |-> type, abi |-> abi])
               /\ instances' = [instances EXCEPT ![chainId] = Len(objects) + 1]
               /\ returned' = Append(returned,
                    [chainId |-> chainId, type |-> type, abi |-> abi,
                     value |-> Len(objects) + 1])
     ELSE /\ UNCHANGED <<instances, objects>>
          /\ returned' = Append(returned,
               [chainId |-> chainId, type |-> type, abi |-> abi,
                value |-> instances[chainId]])
  /\ UNCHANGED <<builderVars, writeVars, netVars>>

\* the key read and write look the contract address up with:
\* CONTRACT_ADDRESSES[this.contractType][this.chainId]
ContractAddress(object) == [type |-> object.contractType, chainId |-> object.chainId]

CacheNext ==
  \E cls \in Classes, chainId \in ChainIds, type \in ContractTypes, abi \in Abis :
    getInstance(cls, chainId, type, abi)

\* ------------------------------------------- generic contract client: write
Calls == {"w1", "w2"}
CbNames == {"onRequestSignature", "onSigned", "onSuccess", "onError"}
\* the callback sets a caller supplies
CallbackSets == {{}, CbNames, CbNames \ {"onError"}}
\* what a provider answers to requestAddresses / getAddresses
AddressLists == {<<>>, <<"0xA">>, <<"0xB", "0xA">>}
Addresses == {"0xA", "0xB"}
\* the address privateKeyToAccount derives: a local account
KeyAddress == "0xKEY"
\* this.chain, fixed by the constructor
thisChain == "mainnet"
\* the chains a signer's wallet may be on
WalletChains == {"mainnet", "sepolia"}
\* createToken arguments used by the orchestrator calls
CreateParams ==
  {[tokenType |-> "ERC20", decimals |-> 6, creatorAllocation |-> 0, stepData |-> <<>>],
   [tokenType |-> "ERC20", decimals |-> 6, creatorAllocation |-> 0,
    stepData |-> <<[x |-> 10, y |-> 4]>>]}

NoCb == [owner |-> None, name |-> None]
NoCallbacks == [n \in CbNames |-> NoCb]
Callbacks(c, S) == [n \in CbNames |-> IF n \in S THEN [owner |-> c, name |-> n] ELSE NoCb]

NoWallet == [account |-> None, chain |-> None, transport |-> None]
createWalletClient(account, transport) ==
  [account |-> account, chain |-> thisChain, transport |-> transport]

TxOf(c) == IF c = "w1" THEN "tx1" ELSE "tx2"
ReceiptOf(c) == IF c = "w1" THEN "receipt1" ELSE "receipt2"

First(list) == IF Len(list) = 0 THEN None ELSE list[1]

NoArgs == [threw |-> FALSE, stepRanges |-> <<>>, stepPrices |-> <<>>]

\* the last signer-attachment call: its method and the account it was given
NoAttach == [mode |-> None, account |-> None]
Attached(mode, account) == [mode |-> mode, account |-> account]

\* the withProvider call: idle, awaiting requestAddresses, resolved or rejected
IdleProvider == [pc |-> "idle", list |-> <<>>]

IdleCall ==
  [pc |-> "idle", kind |-> None, callerCbs |-> NoCallbacks, cbs |-> NoCallbacks,
   functionName |-> None, args |-> NoArgs, iw |-> None, issuedOn |-> NoWallet,
   account |-> None, log |-> <<>>, value |-> None, error |-> None,
   signer |-> NoAttach, reattached |-> FALSE]

\* a call between its entry and its settlement
InFlight(rec) == rec.pc \notin {"idle", "resolved", "rejected"}

\* a signer-attachment call assigns this.walletClient while calls are suspended
Reattached(cs) ==
  [c \in Calls |-> IF InFlight(cs[c]) THEN [cs[c] EXCEPT !.reattached = TRUE] ELSE cs[c]]

\* one entry of a call's trace: an awaited operation issued ("call"), settled
\* ("ok", "fail"), or a lifecycle callback invoked ("cb")
Ev(ev, op, arg, account, wc, cb) ==
  [ev |-> ev, op |-> op, arg |-> arg, account |-> account, wc |-> wc, cb |-> cb]

\* wc: the wallet client behind an operation (writeContract: this.walletClient
\* when it is issued; simulateContract: the client whose getAddresses gave account)
Logged(rec, ev, op, arg) ==
  [rec EXCEPT !.log = Append(@, Ev(ev, op, arg, rec.account,
       IF ev = "call" /\ op = "writeContract" THEN walletClient
       ELSE IF ev = "call" /\ op = "simulateContract" THEN rec.issuedOn
       ELSE NoWallet, NoCb))]

\* name?.(arg)
Invoked(rec, name, arg) ==
  IF rec.cbs[name] = NoCb THEN rec
  ELSE [rec EXCEPT !.log = Append(@, Ev("cb", name, arg, rec.account, NoWallet,
                                        rec.cbs[name]))]

Supplied(rec, name) == rec.cbs[name] # NoCb

\* the callback just invoked throws
Threw(rec, name) ==
  [rec EXCEPT !.log = Append(@, Ev("throw", name, None, rec.account, NoWallet,
                                   rec.cbs[name]))]

\* the promise of the call rejects with error e
Rejected(rec, e) == [rec EXCEPT !.pc = "rejected", !.error = e]

WriteIdle ==
  /\ walletClient = NoWallet
  /\ ethereum = FALSE
  /\ calls = [c \in Calls |-> IdleCall]
  /\ activeChain = thisChain
  /\ lastAttach = NoAttach
  /\ provider = IdleProvider

WriteInit ==
  /\ walletClient = NoWallet
  /\ ethereum \in BOOLEAN
  /\ calls = [c \in Calls |-> IdleCall]
  /\ activeChain \in WalletChains
  /\ lastAttach = NoAttach
  /\ provider = IdleProvider

\* ---- signer attachment
withPrivateKey ==
  /\ walletClient' = createWalletClient(KeyAddress, "http")
  /\ lastAttach' = Attached("withPrivateKey", KeyAddress)
  /\ calls' = Reattached(calls)
  /\ UNCHANGED <<ethereum, activeChain, provider, builderVars, cacheVars, netVars>>

\* custom(window.ethereum) needs the provider
withAccount(account) ==
  /\ ethereum
  /\ walletClient' = createWalletClient(account, "ethereum")
  /\ lastAttach' = Attached("withAccount", account)
  /\ calls' = Reattached(calls)
  /\ UNCHANGED <<ethereum, activeChain, provider, builderVars, cacheVars, netVars>>

\* withProvider(provider), up to its await
WithProviderStart ==
  /\ provider.pc # "requestAddresses"
  /\ walletClient' = createWalletClient(None, "provider")
  /\ provider' = [pc |-> "requestAddresses", list |-> <<>>]
  /\ lastAttach' = Attached("withProvider", None)
  /\ calls' = Reattached(calls)
  /\ UNCHANGED <<ethereum, activeChain, builderVars, cacheVars, netVars>>

WithProviderFails ==
  /\ provider.pc = "requestAddresses"
  /\ provider' = [provider EXCEPT !.pc = "rejected"]
  /\ UNCHANGED <<walletClient, ethereum, calls, activeChain, lastAttach, builderVars,
               cacheVars, netVars>>

\* const [address] = ...; this.walletClient = createWalletClient({account: address, ...})
WithProviderReturns(list) ==
  /\ provider.pc = "requestAddresses"
  /\ walletClient' = createWalletClient(First(list), "provider")
  /\ provider' = [pc |-> "resolved", list |-> list]
  /\ calls' = Reattached(calls)
  /\ UNCHANGED <<ethereum, activeChain, lastAttach, builderVars, cacheVars, netVars>>

InitializeWalletStartNoProviderCheck(rec) ==
  IF walletClient # NoWallet
  THEN [call |-> [rec EXCEPT !.pc = "requestAddresses", !.iw = "existing"],
        wc |-> walletClient]
  ELSE [call |-> [rec EXCEPT !.pc = "requestAddresses", !.iw = "ambient"],
        wc |-> createWalletClient(None, "ethereum")]

\* ---- initializeWallet, up to its first await
InitializeWalletStart(rec) ==
  IF walletClient # NoWallet
  THEN [call |-> [rec EXCEPT !.pc = "requestAddresses", !.iw = "existing"],
        wc |-> walletClient]
  ELSE IF ~ethereum
  THEN [call |-> Rejected(rec, "No Ethereum provider found"), wc |-> walletClient]
  ELSE [call |-> [rec EXCEPT !.pc = "requestAddresses", !.iw = "ambient"],
        wc |-> createWalletClient(None, "ethereum")]

\* write(params) called directly
CallWrite(c, S) ==
  /\ calls[c].pc = "idle"
  /\ LET rec == [IdleCall EXCEPT !.kind = "write", !.callerCbs = Callbacks(c, S),
                                 !.cbs = Callbacks(c, S), !.functionName = "mint",
                                 !.signer = lastAttach]
         r == InitializeWalletStart(rec)
     IN  /\ calls' = [calls EXCEPT ![c] = r.call]
         /\ walletClient' = r.wc
  /\ UNCHANGED <<ethereum, activeChain, lastAttach, provider, builderVars,
               cacheVars, netVars>>

CallCreateTokenReadsFeeFirst(c, variant, p, S) ==
  /\ calls[c].pc = "idle"
  /\ LET q == IF variant = "BondContractLogic" THEN [p EXCEPT !.tokenType = "ERC20"] ELSE p
         rec == [IdleCall EXCEPT !.kind = variant, !.callerCbs = Callbacks(c, S)]
     IN  calls' = [calls EXCEPT ![c] =
           [rec EXCEPT !.pc = "readFee", !.args = generateCreateArgs(variant, q)]]
  /\ UNCHANGED <<walletClient, ethereum, activeChain, lastAttach, provider, builderVars,
               cacheVars, netVars>>

\* createToken(params): generateCreateArgs, then the creationFee read is issued
CallCreateToken(c, variant, p, S) ==
  /\ calls[c].pc = "idle"
  /\ LET q == IF variant = "BondContractLogic" THEN [p EXCEPT !.tokenType = "ERC20"] ELSE p
         built == generateCreateArgs(variant, q)
         rec == [IdleCall EXCEPT !.kind = variant, !.callerCbs = Callbacks(c, S)]
     IN  calls' = [calls EXCEPT ![c] =
           IF built.threw THEN Rejected([rec EXCEPT !.args = built], "Invalid step data")
           ELSE [rec EXCEPT !.pc = "readFee", !.args = built]]
  /\ UNCHANGED <<walletClient, ethereum, activeChain, lastAttach, provider, builderVars,
               cacheVars, netVars>>

ForwardedCallbacksAll(variant, cbs) == cbs

\* the callbacks createToken hands to write
ForwardedCallbacks(variant, cbs) ==
  IF variant = "BondContractLogic" THEN cbs ELSE NoCallbacks

ReadFeeFails(c) ==
  /\ calls[c].pc = "readFee"
  /\ calls' = [calls EXCEPT ![c] = Rejected(@, "creationFee read failed")]
  /\ UNCHANGED <<walletClient, ethereum, activeChain, lastAttach, provider, builderVars,
               cacheVars, netVars>>

\* the fee arrives: this.write({functionName: 'createToken', args, value, ...})
ReadFeeReturns(c) ==
  /\ calls[c].pc = "readFee"
  /\ LET rec == [calls[c] EXCEPT !.cbs = ForwardedCallbacks(calls[c].kind, calls[c].callerCbs),
                                 !.functionName = "createToken", !.signer = lastAttach]
         r == InitializeWalletStart(rec)
     IN  /\ calls' = [calls EXCEPT ![c] = r.call]
         /\ walletClient' = r.wc
  /\ UNCHANGED <<ethereum, activeChain, lastAttach, provider, builderVars,
               cacheVars, netVars>>

\* ---- initializeWallet after requestAddresses settles
RequestAddressesFails(c) ==
  /\ calls[c].pc = "requestAddresses"
  /\ calls' = [calls EXCEPT ![c] = Rejected(@, "requestAddresses failed")]
  /\ UNCHANGED <<walletClient, ethereum, activeChain, lastAttach, provider, builderVars,
               cacheVars, netVars>>

\* const [address] = ...; this.walletClient = createWalletClient({account: address, ...})
RequestAddressesReturns(c, list) ==
  /\ calls[c].pc = "requestAddresses"
  /\ walletClient' =
       IF calls[c].iw = "existing"
       THEN createWalletClient(First(list), walletClient.transport)
       ELSE createWalletClient(First(list), "ethereum")
  /\ calls' = [calls EXCEPT ![c].pc = "initialized"]
  /\ UNCHANGED <<ethereum, activeChain, lastAttach, provider, builderVars,
               cacheVars, netVars>>

\* ---- write, from the return of initializeWallet to the await of getAddresses
\* walletClient.chain is the chain option of createWalletClient, always
\* this.chain: the switchChain / addChain branch is never entered
AfterInitializeWallet(c) ==
  /\ calls[c].pc = "initialized"
  /\ calls' = [calls EXCEPT ![c] =
       IF walletClient.account = None THEN Rejected(@, "No wallet client found")
       ELSE IF walletClient.chain # thisChain THEN [@ EXCEPT !.pc = "switchChain"]
       ELSE [@ EXCEPT !.pc = "getAddresses", !.issuedOn = walletClient]]
  /\ UNCHANGED <<walletClient, ethereum, activeChain, lastAttach, provider, builderVars,
               cacheVars, netVars>>

\* a client with a local account answers getAddresses itself
GetAddressesFails(c) ==
  /\ calls[c].pc = "getAddresses"
  /\ calls[c].issuedOn.account # KeyAddress
  /\ calls' = [calls EXCEPT ![c] = Rejected(@, "getAddresses failed")]
  /\ UNCHANGED <<walletClient, ethereum, activeChain, lastAttach, provider, builderVars,
               cacheVars, netVars>>

\* const [account] = ...; simulationArgs built; try { simulateContract issued
GetAddressesReturns(c, list) ==
  /\ calls[c].pc = "getAddresses"
  /\ calls[c].issuedOn.account = KeyAddress => list = <<KeyAddress>>
  /\ LET rec == [calls[c] EXCEPT !.account = First(list), !.pc = "simulate"]
     IN  calls' = [calls EXCEPT ![c] =
           [Logged(rec, "call", "simulateContract", None) EXCEPT !.issuedOn = NoWallet]]
  /\ UNCHANGED <<walletClient, ethereum, activeChain, lastAttach, provider, builderVars,
               cacheVars, netVars>>

CatchRethrows(rec, e, onErrorThrows) == Rejected(rec, e)

\* catch (e) { Object.assign(e, {functionName, args, account, ...}); onError?.(e) }
\* the annotated error is the event's arg together with its account field
Catch(rec, e, onErrorThrows) ==
  LET r == Invoked(rec, "onError", e)
  IN  IF Supplied(rec, "onError") /\ onErrorThrows
      THEN Rejected(Threw(r, "onError"), "onError threw")
      ELSE [r EXCEPT !.pc = "resolved", !.value = None]

AfterSimulateSubmitsFirst(rec, throws, onErrorThrows) ==
  Invoked(Logged([rec EXCEPT !.pc = "submit"], "call", "writeContract", None),
          "onRequestSignature", None)

\* onRequestSignature?.(); this.walletClient.writeContract(request) issued
AfterSimulate(rec, throws, onErrorThrows) ==
  LET r == Invoked(rec, "onRequestSignature", None)
  IN  IF Supplied(rec, "onRequestSignature") /\ throws
      THEN Catch(Threw(r, "onRequestSignature"), "onRequestSignature threw", onErrorThrows)
      ELSE Logged([r EXCEPT !.pc = "submit"], "call", "writeContract", None)

AfterSimulateFailsSwallowed(rec, onErrorThrows) == AfterSimulate(rec, FALSE, onErrorThrows)

\* the rejected simulation takes the catch block
AfterSimulateFails(rec, onErrorThrows) == Catch(rec, "simulateContract failed", onErrorThrows)

SimulateFails(c, onErrorThrows) ==
  /\ calls[c].pc = "simulate"
  /\ LET rec == Logged(calls[c], "fail", "simulateContract", None)
     IN  calls' = [calls EXCEPT ![c] = AfterSimulateFails(rec, onErrorThrows)]
  /\ UNCHANGED <<walletClient, ethereum, activeChain, lastAttach, provider, builderVars,
               cacheVars, netVars>>

SimulateReturns(c, throws, onErrorThrows) ==
  /\ calls[c].pc = "simulate"
  /\ LET rec == Logged(calls[c], "ok", "simulateContract", None)
     IN  calls' = [calls EXCEPT ![c] = AfterSimulate(rec, throws, onErrorThrows)]
  /\ UNCHANGED <<walletClient, ethereum, activeChain, lastAttach, provider, builderVars,
               cacheVars, netVars>>

SubmitFails(c, onErrorThrows) ==
  /\ calls[c].pc = "submit"
  /\ LET rec == Logged(calls[c], "fail", "writeContract", None)
     IN  calls' = [calls EXCEPT ![c] = Catch(rec, "writeContract failed", onErrorThrows)]
  /\ UNCHANGED <<walletClient, ethereum, activeChain, lastAttach, provider, builderVars,
               cacheVars, netVars>>

\* onSigned?.(tx); waitForTransactionReceipt({hash: tx}) issued
AfterSubmit(rec, tx, throws, onErrorThrows) ==
  LET r == Invoked(rec, "onSigned", tx)
  IN  IF Supplied(rec, "onSigned") /\ throws
      THEN Catch(Threw(r, "onSigned"), "onSigned threw", onErrorThrows)
      ELSE Logged([r EXCEPT !.pc = "confirm"], "call", "waitForTransactionReceipt", tx)

SubmitReturns(c, throws, onErrorThrows) ==
  /\ calls[c].pc = "submit"
  /\ LET rec == Logged(calls[c], "ok", "writeContract", TxOf(c))
     IN  calls' = [calls EXCEPT ![c] = AfterSubmit(rec, TxOf(c), throws, onErrorThrows)]
  /\ UNCHANGED <<walletClient, ethereum, activeChain, lastAttach, provider, builderVars,
               cacheVars, netVars>>

ConfirmFails(c, onErrorThrows) ==
  /\ calls[c].pc = "confirm"
  /\ LET rec == Logged(calls[c], "fail", "waitForTransactionReceipt", None)
     IN  calls' = [calls EXCEPT ![c] =
           Catch(rec, "waitForTransactionReceipt failed", onErrorThrows)]
  /\ UNCHANGED <<walletClient, ethereum, activeChain, lastAttach, provider, builderVars,
               cacheVars, netVars>>

AfterConfirmKeepsReceipt(rec, receipt, throws, onErrorThrows) ==
  LET r == Invoked(rec, "onSuccess", receipt)
  IN  IF Supplied(rec, "onSuccess") /\ throws
      THEN [Catch(Threw(r, "onSuccess"), "onSuccess threw", onErrorThrows)
              EXCEPT !.value = receipt]
      ELSE [r EXCEPT !.pc = "resolved", !.value = receipt]

\* onSuccess?.(receipt); return receipt
AfterConfirm(rec, receipt, throws, onErrorThrows) ==
  LET r == Invoked(rec, "onSuccess", receipt)
  IN  IF Supplied(rec, "onSuccess") /\ throws
      THEN Catch(Threw(r, "onSuccess"), "onSuccess threw", onErrorThrows)
      ELSE [r EXCEPT !.pc = "resolved", !.value = receipt]

ConfirmReturns(c, throws, onErrorThrows) ==
  /\ calls[c].pc = "confirm"
  /\ LET rec == Logged(calls[c], "ok", "waitForTransactionReceipt", ReceiptOf(c))
     IN  calls' = [calls EXCEPT ![c] = AfterConfirm(rec, ReceiptOf(c), throws, onErrorThrows)]
  /\ UNCHANGED <<walletClient, ethereum, activeChain, lastAttach, provider, builderVars,
               cacheVars, netVars>>

\* the steps of call c
WriteStep(c) ==
  \/ \E S \in CallbackSets : CallWrite(c, S)
  \/ \E v \in Variants, p \in CreateParams, S \in CallbackSets : CallCreateToken(c, v, p, S)
  \/ ReadFeeFails(c)
  \/ ReadFeeReturns(c)
  \/ RequestAddressesFails(c)
  \/ \E list \in AddressLists : RequestAddressesReturns(c, list)
  \/ AfterInitializeWallet(c)
  \/ GetAddressesFails(c)
  \/ \E list \in AddressLists \cup {<<KeyAddress>>} : GetAddressesReturns(c, list)
  \/ \E e \in BOOLEAN : SimulateFails(c, e)
  \/ \E t \in BOOLEAN, e \in BOOLEAN : SimulateReturns(c, t, e)
  \/ \E e \in BOOLEAN : SubmitFails(c, e)
  \/ \E t \in BOOLEAN, e \in BOOLEAN : SubmitReturns(c, t, e)
  \/ \E e \in BOOLEAN : ConfirmFails(c, e)
  \/ \E t \in BOOLEAN, e \in BOOLEAN : ConfirmReturns(c, t, e)

\* signer attachment by the application, at any time
Attach ==
  \/ withPrivateKey
  \/ \E a \in Addresses : withAccount(a)

\* one call at a time on the client, the application free to re-attach a signer
WriteNext == Attach \/ WriteStep("w1")

\* withProvider, asynchronous
ProviderStep ==
  \/ WithProviderStart
  \/ WithProviderFails
  \/ \E list \in AddressLists : WithProviderReturns(list)

\* the steps of a direct write(params) without callbacks
ConcStep(c) ==
  \/ CallWrite(c, {})
  \/ RequestAddressesFails(c)
  \/ \E list \in AddressLists : RequestAddressesReturns(c, list)
  \/ AfterInitializeWallet(c)
  \/ GetAddressesFails(c)
  \/ \E list \in AddressLists \cup {<<KeyAddress>>} : GetAddressesReturns(c, list)
  \/ SimulateFails(c, FALSE)
  \/ SimulateReturns(c, FALSE, FALSE)
  \/ SubmitFails(c, FALSE)
  \/ SubmitReturns(c, FALSE, FALSE)
  \/ ConfirmFails(c, FALSE)
  \/ ConfirmReturns(c, FALSE, FALSE)

\* one direct write, the application free to attach a signer in any of the
\* three ways while it is suspended
SignerNext == Attach \/ ProviderStep \/ ConcStep("w1")

SignerInit ==
  /\ walletClient = NoWallet
  /\ ethereum \in BOOLEAN
  /\ calls = [c \in Calls |-> IdleCall]
  /\ activeChain = thisChain
  /\ lastAttach = NoAttach
  /\ provider = IdleProvider

\* no lock: two writes on one client interleave at every await
ConcNext == \E c \in Calls : ConcStep(c)

\* the client as a synchronous attachment call, or none, has left it
ConcInit ==
  /\ ethereum \in BOOLEAN
  /\ \/ walletClient = NoWallet /\ lastAttach = NoAttach
     \/ /\ walletClient = createWalletClient(KeyAddress, "http")
        /\ lastAttach = Attached("withPrivateKey", KeyAddress)
     \/ /\ ethereum
        /\ walletClient = createWalletClient("0xA", "ethereum")
        /\ lastAttach = Attached("withAccount", "0xA")
  /\ calls = [c \in Calls |-> IdleCall]
  /\ activeChain = thisChain
  /\ provider = IdleProvider

\* ---------------------------------------------------------- specifications
InitBuilder == BuilderInit /\ CacheIdle /\ WriteIdle /\ NetIdle
InitCache == BuilderIdle /\ CacheInit /\ WriteIdle /\ NetIdle
InitWrite == BuilderIdle /\ CacheIdle /\ WriteInit /\ NetIdle
InitNetwork == BuilderIdle /\ CacheIdle /\ WriteIdle /\ NetInit

SpecBuilder == InitBuilder /\ [][BuilderNext]_vars
SpecCache == InitCache /\ [][CacheNext]_vars
SpecWrite == InitWrite /\ [][WriteNext]_vars
SpecNetwork == InitNetwork /\ [][NetNext]_vars
InitConc == BuilderIdle /\ CacheIdle /\ ConcInit /\ NetIdle
InitSigner == BuilderIdle /\ CacheIdle /\ SignerInit /\ NetIdle
SpecSigner == InitSigner /\ [][SignerNext]_vars
SpecConc == InitConc /\ [][ConcNext]_vars


\* ------------------------------------------------------- claims: the builder
BuilderPastMerge == bpc \in {"merged", "thrown", "returned"}

NoAdjacentEqual(prices) ==
  \A i \in 1..(Len(prices) - 1) : ~BigEq(prices[i], prices[i + 1])

\* the positions that end a maximal run of equal prices
LastOfRun(prices) ==
  {k \in 1..Len(prices) : k = Len(prices) \/ ~BigEq(prices[k], prices[k + 1])}

RECURSIVE Pick(_, _, _)
Pick(s, K, k) ==
  IF k > Len(s) THEN <<>>
  ELSE (IF k \in K THEN <<s[k]>> ELSE <<>>) \o Pick(s, K, k + 1)

StrictlyIncreasing(stepData) ==
  \A i \in 1..(Len(stepData) - 1) : stepData[i].x < stepData[i + 1].x

NonDecreasing(ranges) ==
  \A i \in 1..(Len(ranges) - 1) : BigLeq(ranges[i], ranges[i + 1])

\* C4: for every checkpoint sequence with at least one entry, of either
\* variant, any token type, reserve decimals and creator allocation, the
\* builder never throws the invalid-step-data error and its two arrays have
\* the same length, at least 1.
C4_NonEmptyBuilds ==
  Len(bparams.stepData) >= 1 =>
    /\ bpc # "thrown"
    /\ bpc \in {"merged", "returned"} =>
         Len(stepRanges) = Len(stepPrices) /\ Len(stepRanges) >= 1

C4_Witness ==
  /\ bpc = "returned"
  /\ Len(bparams.stepData) = MaxSteps
  /\ Len(stepRanges) = 1
  /\ Len(stepPrices) = 1

\* C5: after the merge loop no two adjacent prices are equal, and of every
\* maximal run of equal-price steps of the pre-merge arrays exactly the last
\* step survives (its boundary and its price), runs of 3 or more included.
C5_MergeKeepsLastOfRun ==
  BuilderPastMerge =>
    /\ NoAdjacentEqual(stepPrices)
    /\ stepRanges = Pick(preMerge.stepRanges, LastOfRun(preMerge.stepPrices), 1)
    /\ stepPrices = Pick(preMerge.stepPrices, LastOfRun(preMerge.stepPrices), 1)

C5_Witness ==
  /\ bpc = "merged"
  /\ Len(stepPrices) >= 2
  /\ \E k \in 1..(Len(preMerge.stepPrices) - 2) :
       /\ BigEq(preMerge.stepPrices[k], preMerge.stepPrices[k + 1])
       /\ BigEq(preMerge.stepPrices[k + 1], preMerge.stepPrices[k + 2])

\* C6: with an empty checkpoint list the builder fails with the invalid-curve
\* error and returns nothing, whatever the other inputs.
C6_EmptyFails ==
  Len(bparams.stepData) = 0 => bpc # "returned"

\* C7: with a positive creatorAllocation and a non-empty checkpoint list, the
\* first step of the result has price zero and the scaled allocation as its
\* boundary.
C7_CreatorStepFirst ==
  (/\ bpc = "returned"
   /\ HasCreatorAllocation(bparams.variant, bparams)
   /\ Len(bparams.stepData) >= 1)
  => /\ BigEq(stepPrices[1], Big(0, 0))
     /\ BigEq(stepRanges[1],
              wei(bparams.creatorAllocation, TokenDecimals(bparams.tokenType)))

\* C8: for strictly increasing checkpoint boundaries and any creatorAllocation,
\* the stepRanges of a returned BondCurveSpec are non-decreasing.
C8_RangesNonDecreasing ==
  (bpc = "returned" /\ StrictlyIncreasing(bparams.stepData)) => NonDecreasing(stepRanges)

\* --------------------------------------------------------- claims: the cache
ObjectsOf(chainId) == {k \in DOMAIN objects : objects[k].chainId = chainId}

\* C9: after any sequence of getInstance calls there is at most one client per
\* chain id (a constructor completes once per chain id), every value returned
\* for a chain id is still the cache entry of that chain id (no entry is ever
\* replaced), and two calls with the same chain id return the identical object.
C9_OneInstancePerChain ==
  /\ \A chainId \in ChainIds : Cardinality(ObjectsOf(chainId)) <= 1
  /\ \A i \in DOMAIN returned : returned[i].value = instances[returned[i].chainId]
  /\ \A i, j \in DOMAIN returned :
       returned[i].chainId = returned[j].chainId => returned[i].value = returned[j].value

C9_Witness ==
  \E i, j \in DOMAIN returned :
    /\ i < j
    /\ returned[i].chainId = returned[j].chainId
    /\ returned[i].value # 0
    /\ returned[i].value = returned[j].value
    /\ returned[i].type # returned[j].type


\* ------------------------------------------------- claims: the write pipeline
Is(e, ev, op) == e.ev = ev /\ e.op = op

Has(c, ev, op) == \E k \in DOMAIN calls[c].log : Is(calls[c].log[k], ev, op)

Count(c, ev, op) == Cardinality({k \in DOMAIN calls[c].log : Is(calls[c].log[k], ev, op)})

\* every (ev1, op1) entry of the trace comes before every (ev2, op2) entry
Before(c, ev1, op1, ev2, op2) ==
  \A i, j \in DOMAIN calls[c].log :
    (Is(calls[c].log[i], ev1, op1) /\ Is(calls[c].log[j], ev2, op2)) => i < j

ArgOf(c, ev, op) ==
  calls[c].log[CHOOSE k \in DOMAIN calls[c].log : Is(calls[c].log[k], ev, op)].arg

Finished(c) == calls[c].pc \in {"resolved", "rejected"}

LifecycleCallbacks == {"onRequestSignature", "onSigned", "onSuccess"}

\* C1: in a write call whose simulation fails, onRequestSignature, onSigned and
\* onSuccess are never invoked and writeContract is never called.
C1_SimulationFailureStops ==
  \A c \in Calls :
    Has(c, "fail", "simulateContract") =>
      /\ \A n \in LifecycleCallbacks : ~Has(c, "cb", n)
      /\ ~Has(c, "call", "writeContract")

C1_Witness ==
  \E c \in Calls :
    /\ Has(c, "fail", "simulateContract")
    /\ calls[c].pc = "resolved"
    /\ \A n \in CbNames : Supplied(calls[c], n)
    /\ Has(c, "cb", "onError")

AllSucceeded(c) ==
  /\ Has(c, "ok", "simulateContract")
  /\ Has(c, "ok", "writeContract")
  /\ Has(c, "ok", "waitForTransactionReceipt")

\* each supplied callback fires once, at its place, with its argument
CallbacksInOrder(c) ==
  /\ \A n \in LifecycleCallbacks : Supplied(calls[c], n) => Count(c, "cb", n) = 1
  /\ Before(c, "ok", "simulateContract", "cb", "onRequestSignature")
  /\ Before(c, "cb", "onRequestSignature", "call", "writeContract")
  /\ Before(c, "ok", "writeContract", "cb", "onSigned")
  /\ Before(c, "cb", "onSigned", "call", "waitForTransactionReceipt")
  /\ Before(c, "ok", "waitForTransactionReceipt", "cb", "onSuccess")
  /\ Has(c, "cb", "onSigned") => ArgOf(c, "cb", "onSigned") = ArgOf(c, "ok", "writeContract")
  /\ Has(c, "cb", "onSuccess") =>
       ArgOf(c, "cb", "onSuccess") = ArgOf(c, "ok", "waitForTransactionReceipt")

ReturnsReceipt(c) ==
  /\ calls[c].pc = "resolved"
  /\ calls[c].value = ArgOf(c, "ok", "waitForTransactionReceipt")

\* C2 as stated: when simulation, submission and confirmation all succeed, the
\* callbacks fire once each in order (onRequestSignature after simulation and
\* before submission, onSigned with the transaction id after submission and
\* before the confirmation wait, onSuccess with the receipt after
\* confirmation) and the call returns that receipt.
C2_Original ==
  \A c \in Calls :
    (AllSucceeded(c) /\ Finished(c)) => (CallbacksInOrder(c) /\ ReturnsReceipt(c))

\* C2 amended: the same order and multiplicity; the call returns that receipt
\* exactly when onSuccess did not throw.
C2_CallbacksOnceInOrder ==
  \A c \in Calls :
    (AllSucceeded(c) /\ Finished(c)) =>
      /\ CallbacksInOrder(c)
      /\ ReturnsReceipt(c) <=> ~Has(c, "throw", "onSuccess")

C2_Witness ==
  \E c \in Calls :
    /\ calls[c].pc = "resolved"
    /\ calls[c].value = ReceiptOf(c)
    /\ \A n \in CbNames : Supplied(calls[c], n)
    /\ \A n \in LifecycleCallbacks : Has(c, "cb", n)

\* failures raised before the try block of write
PreSimulationErrors ==
  {"No Ethereum provider found", "requestAddresses failed", "No wallet client found",
   "getAddresses failed"}

FailedBeforeSimulation(c) ==
  calls[c].pc = "rejected" /\ calls[c].error \in PreSimulationErrors

FailedInTry(c) ==
  \E k \in DOMAIN calls[c].log :
    \/ calls[c].log[k].ev = "fail"
    \/ calls[c].log[k].ev = "throw" /\ calls[c].log[k].op # "onError"

ResolvesWithNoValue(c) == calls[c].pc = "resolved" /\ calls[c].value = None

\* C3 as stated: a failure at any of the steps 1-6 (signer acquisition, missing
\* wallet client, chain switch, simulation, submission, confirmation wait) is
\* caught inside write, goes to onError when supplied, and write resolves with
\* no value instead of rejecting.
C3_Original ==
  \A c \in Calls :
    (Finished(c) /\ (FailedBeforeSimulation(c) \/ FailedInTry(c))) =>
      /\ ResolvesWithNoValue(c)
      /\ Supplied(calls[c], "onError") => Has(c, "cb", "onError")

\* C3 amended: a failure inside the try block (simulation, submission,
\* confirmation wait, a throwing lifecycle callback) goes to onError once when
\* supplied and write resolves with no value, unless onError itself throws and
\* write rejects; a failure before simulation rejects write and reaches no
\* callback.
C3_TryFailuresCaught ==
  \A c \in Calls :
    Finished(c) =>
      /\ FailedInTry(c) =>
           /\ Supplied(calls[c], "onError") => Count(c, "cb", "onError") = 1
           /\ IF Has(c, "throw", "onError")
              THEN calls[c].pc = "rejected" /\ calls[c].error = "onError threw"
              ELSE ResolvesWithNoValue(c)
      /\ FailedBeforeSimulation(c) =>
           /\ ~Has(c, "cb", "onError")
           /\ ~Has(c, "call", "simulateContract")

C3_Witness ==
  \E c \in Calls :
    /\ Has(c, "fail", "writeContract")
    /\ Supplied(calls[c], "onError")
    /\ Has(c, "cb", "onError")
    /\ ResolvesWithNoValue(c)

\* the stage of the pipeline at which write invokes callback n
StageReached(c, n) ==
  CASE n = "onRequestSignature" -> Has(c, "ok", "simulateContract")
    [] n = "onSigned" -> Has(c, "ok", "writeContract")
    [] n = "onSuccess" -> Has(c, "ok", "waitForTransactionReceipt")
    [] n = "onError" -> FailedInTry(c)

\* C10: in both createToken variants, every callback the caller supplied is
\* the one write invokes when the pipeline reaches that callback's stage.
C10_CallbacksForwarded ==
  \A c \in Calls :
    calls[c].kind \in Variants =>
      \A n \in CbNames :
        (calls[c].callerCbs[n] # NoCb /\ StageReached(c, n)) =>
          \E k \in DOMAIN calls[c].log :
            Is(calls[c].log[k], "cb", n) /\ calls[c].log[k].cb = calls[c].callerCbs[n]

\* ------------------------------------------------ claims: chain resolution
\* the registry knows the id, or knows the name up to letter case
Recognized(id) ==
  IF id.type = "number"
  THEN \E i \in 1..Len(CHAINS) : CHAINS[i].id = id.num
  ELSE \E i \in 1..Len(CHAINS) : toLowerCase(CHAINS[i].name) = toLowerCase(id.str)

\* C11: network(id) returns normally exactly for a registered numeric id or a
\* name that matches a registry name case-insensitively; every other input
\* fails with the unsupported-chain error.
C11_OnlyRegistryChainsAccepted ==
  \A k \in 1..Len(netCalls) :
    IF Recognized(netCalls[k].id)
    THEN ~netCalls[k].threw
    ELSE netCalls[k].threw /\ netCalls[k].error = "Chain not supported"

\* ------------------------------------------------- claims: signer attachment
\* call c was entered with withAccount(address) as the last attachment call,
\* and no attachment call has been made since
AfterWithAccount(c) ==
  calls[c].signer.mode = "withAccount" /\ ~calls[c].reattached

\* C12: a write made after withAccount(address), that being the last attachment
\* call, simulates with that address and submits through a wallet client
\* bound to it, whatever address list the injected provider returns.
C12_WithAccountAddressUsed ==
  \A c \in Calls :
    AfterWithAccount(c) =>
      \A k \in DOMAIN calls[c].log :
        /\ Is(calls[c].log[k], "call", "simulateContract") =>
             calls[c].log[k].account = calls[c].signer.account
        /\ Is(calls[c].log[k], "call", "writeContract") =>
             /\ calls[c].log[k].account = calls[c].signer.account
             /\ calls[c].log[k].wc.account = calls[c].signer.account

\* C13: withProvider never completes normally after the provider returned an
\* empty address list (it fails with the no-account-available error instead).
C13_EmptyListFails ==
  provider.pc = "resolved" => provider.list # <<>>

\* ------------------------------------------------- claims: chain alignment
\* the chain test of write never sends a call to the switchChain branch
SwitchChainUnreachable == \A c \in Calls : calls[c].pc # "switchChain"

\* C14: a write through the injected wallet while that wallet is on another
\* chain than the client's attempts switchChain before it simulates.
C14_SwitchChainBeforeSimulation ==
  \A c \in Calls :
    \A k \in DOMAIN calls[c].log :
      ( /\ Is(calls[c].log[k], "call", "simulateContract")
        /\ calls[c].log[k].wc.transport = "ethereum"
        /\ activeChain # thisChain ) =>
        \E j \in 1..(k - 1) : Is(calls[c].log[j], "call", "switchChain")

\* ------------------------------------------------- claims: early failures
NoProviderFound(rec) == rec.pc = "rejected" /\ rec.error = "No Ethereum provider found"

\* the body of write starts for call c in this step
EntersWrite(c) ==
  \/ calls[c].pc = "idle" /\ calls'[c].kind = "write"
  \/ calls[c].pc = "readFee" /\ calls'[c].functionName = "createToken"

\* C15: a write entered with no signer attached and no ambient provider rejects
\* with the no-provider-found error and leaves this.walletClient unset; a call
\* that ended with that error has issued no operation and invoked no callback.
C15_NoProviderFails ==
  [][\A c \in Calls :
       /\ (EntersWrite(c) /\ walletClient = NoWallet /\ ~ethereum) =>
            NoProviderFound(calls'[c]) /\ walletClient' = NoWallet
       /\ calls'[c].error = "No Ethereum provider found" =>
            NoProviderFound(calls'[c]) /\ calls'[c].log = <<>>]_vars

C15_Witness ==
  \E c \in Calls :
    NoProviderFound(calls[c]) /\ walletClient = NoWallet /\ calls[c].kind = "write"

\* C16: a createToken call whose builder failed is rejected with the
\* invalid-curve error with nothing started: no creationFee read, no wallet
\* acquisition, no operation issued and no callback invoked.
C16_InvalidCurveBeforeNetwork ==
  \A c \in Calls :
    calls[c].args.threw =>
      /\ calls[c].pc = "rejected"
      /\ calls[c].error = "Invalid step data"
      /\ calls[c].iw = None
      /\ calls[c].functionName = None
      /\ calls[c].log = <<>>

C16_Witness ==
  \E c \in Calls :
    /\ calls[c].kind = "BondContractLogic"
    /\ calls[c].args.threw
    /\ calls[c].pc = "rejected"

\* C17: the merge loop run on the arrays a merge has produced removes nothing.
C17_MergeIdempotent ==
  BuilderPastMerge =>
    MergeLoop(stepRanges, stepPrices, 0) =
      [stepRanges |-> stepRanges, stepPrices |-> stepPrices]

C17_Witness ==
  /\ bpc = "merged"
  /\ Len(stepPrices) >= 2
  /\ Len(preMerge.stepPrices) > Len(stepPrices)

\* ------------------------------------------------- claims: shared state
\* a step of some call's write pipeline
PipelineStep == \E c \in Calls : calls'[c].pc # calls[c].pc

\* C18: no step of a write pipeline reassigns this.walletClient, so two writes
\* interleaved on one client share no state that either of them changes.
C18_PipelineMutatesNothing ==
  [][PipelineStep => walletClient' = walletClient]_vars

\* C19: every client getInstance(chainId, type, abi) returns carries the
\* contract type and the ABI of that call, so that its reads and writes look
\* up the address registered for (type, chainId).
C19_ReturnedMatchesArguments ==
  \A k \in DOMAIN returned :
    returned[k].value # 0 =>
      /\ objects[returned[k].value].contractType = returned[k].type
      /\ objects[returned[k].value].abi = returned[k].abi
      /\ ContractAddress(objects[returned[k].value]) =
           [type |-> returned[k].type, chainId |-> returned[k].chainId]

\* C20: the wallet client a write submits through (this.walletClient when
\* writeContract is issued) is the one its simulation account was taken from,
\* and the request it submits carries that simulation account.
C20_SubmitsAsSimulated ==
  \A c \in Calls :
    \A i, j \in DOMAIN calls[c].log :
      ( /\ Is(calls[c].log[i], "call", "simulateContract")
        /\ Is(calls[c].log[j], "call", "writeContract") ) =>
        /\ calls[c].log[j].wc = calls[c].log[i].wc
        /\ calls[c].log[j].account = calls[c].log[i].account

\* ------------------------------------------------- claims: onError and the receipt
\* the call resolved with its receipt
ReturnedReceipt(c) == calls[c].pc = "resolved" /\ calls[c].value = ReceiptOf(c)

\* onError was invoked after onSuccess had been invoked
OnErrorAfterOnSuccess(c) ==
  \E i, j \in DOMAIN calls[c].log :
    /\ i < j
    /\ Is(calls[c].log[i], "cb", "onSuccess")
    /\ Is(calls[c].log[j], "cb", "onError")

\* C21 as stated: onError is invoked at most once and never after onSuccess,
\* and a settled call returned a receipt exactly when onError was not invoked,
\* throwing lifecycle callbacks included.
C21_Original ==
  \A c \in Calls :
    /\ Count(c, "cb", "onError") <= 1
    /\ ~OnErrorAfterOnSuccess(c)
    /\ Finished(c) => (ReturnedReceipt(c) <=> ~Has(c, "cb", "onError"))

\* C21 amended: onError is invoked at most once; it follows onSuccess only when
\* onSuccess threw; a call that returned a receipt succeeded at every step and
\* invoked no onError; and for a settled call that reached simulation with
\* onError supplied, a receipt was returned exactly when onError was not invoked.
C21_OnErrorOnceNoReceipt ==
  \A c \in Calls :
    /\ Count(c, "cb", "onError") <= 1
    /\ OnErrorAfterOnSuccess(c) => Has(c, "throw", "onSuccess")
    /\ ReturnedReceipt(c) =>
         /\ AllSucceeded(c)
         /\ ~Has(c, "cb", "onError")
         /\ ~Has(c, "throw", "onSuccess")
    /\ (Finished(c) /\ Has(c, "call", "simulateContract") /\ Supplied(calls[c], "onError")) =>
         (ReturnedReceipt(c) <=> ~Has(c, "cb", "onError"))

C21_Witness ==
  \E c \in Calls :
    /\ Finished(c)
    /\ Has(c, "throw", "onSuccess")
    /\ OnErrorAfterOnSuccess(c)
    /\ Count(c, "cb", "onError") = 1
    /\ ~ReturnedReceipt(c)

====
